---- MODULE Spec2Model ----
(***************************************************************************)
(* Model of python/sglang/srt/metrics/collector.py: the scheduler          *)
(* collector (seven "mostrecent" gauges, a queue-latency histogram) and    *)
(* the tokenizer/request collector (four counters, latency histograms and  *)
(* the batched inter-token-latency observation).                           *)
(*                                                                         *)
(* The primitives are prometheus_client's (v0.21.1, the version the source *)
(* cites at collector.py:350).  What the model takes from the library:     *)
(*   - Counter.inc(amount) raises ValueError when amount < 0 and otherwise *)
(*     adds amount to the value under the value's lock;                    *)
(*   - a Histogram keeps one NON-cumulative value per upper bound, the     *)
(*     constructor appends +Inf to the given ladder, observe(v) adds v to  *)
(*     _sum and 1 to the first bucket whose bound is >= v; the exported    *)
(*     count is the total of all bucket values (+Inf included);            *)
(*   - every value's inc/set runs under a lock (atomic);                   *)
(*   - Gauge.set of a "mostrecent" gauge stores (value, time.time());      *)
(*   - the multiprocess merge visits the per-process values in some order, *)
(*     adds counters and histogram values, and for a "mostrecent" gauge    *)
(*     keeps the value whose timestamp is strictly greater than the        *)
(*     greatest seen so far (starting from 0).                             *)
(*                                                                         *)
(* Durations are integers in milliseconds; the bucket ladders are the      *)
(* source's, in milliseconds.  Inputs of the two divisions are chosen so   *)
(* that the quotient is an integer (see TrueDiv).                          *)
(***************************************************************************)
EXTENDS Integers, Sequences, FiniteSets, TLC

VARIABLES
    \* TokenizerMetricsCollector, one instance per worker process
    prompt_tokens_total,
    generation_tokens_total,
    cached_tokens_total,
    num_requests_total,
    histogram_e2e_request_latency,
    histogram_time_per_output_token,
    histogram_inter_token_latency_seconds,
    \* SchedulerMetricsCollector, one instance per scheduler process
    gauges,                 \* [proc -> [field -> value]]
    gauge_ts,               \* [proc -> [field -> timestamp of the last set, 0: never]]
    last_log_time,
    histogram_request_queue_latency,
    sched,                  \* [proc -> position inside log_stats and its argument]
    now,                    \* the wall clock time.time() reads
    \* request-handling tasks of process 1 inside observe_inter_token_latency
    task,
    locked,                 \* the values (0: _sum, i: bucket i) whose lock is held
    \* history variables (no program state)
    last,                   \* the last completed call: operation, arguments, outcome
    sent,                   \* totals of the arguments of the calls made so far
    ncalls

vars == <<prompt_tokens_total, generation_tokens_total, cached_tokens_total,
          num_requests_total, histogram_e2e_request_latency,
          histogram_time_per_output_token, histogram_inter_token_latency_seconds,
          gauges, gauge_ts, last_log_time, histogram_request_queue_latency,
          sched, now, task, locked, last, sent, ncalls>>

tokenizerVars == <<prompt_tokens_total, generation_tokens_total, cached_tokens_total,
                   num_requests_total, histogram_e2e_request_latency,
                   histogram_time_per_output_token,
                   histogram_inter_token_latency_seconds>>

schedulerVars == <<gauges, gauge_ts, last_log_time, histogram_request_queue_latency,
                   sched, now>>

----------------------------------------------------------------------------
(* Bounds of the model *)

MaxCalls == 3       \* calls made in one behaviour
MaxTime == 2        \* readings of the wall clock
MaxLogs == 2        \* log_stats calls of the scheduler processes together
MaxTasks == 2       \* concurrent tasks inside observe_inter_token_latency

Procs == {1, 2}
Tasks == 1..MaxTasks

(* Inputs.  Durations are multiples of 6 ms so that dividing by 1, 2 or 3 *)
(* tokens is exact.                                                       *)
TokenAmounts == {-1, 2}
GenerationAmounts == {-1, 0, 1, 3}
CachedAmounts == {-1, 1}
Latencies == {60, 6000}
Intervals == {6, 300, 3000}
NewTokens == {0, 1, 3}
QueueLatencies == {0, 30, 90000}

----------------------------------------------------------------------------
(* Bucket ladders, collector.py, in milliseconds *)

queue_latency_buckets ==
    <<1, 2, 5, 10, 20, 50, 100, 200, 500, 1000, 2000, 5000, 10000, 20000,
      30000, 60000>>

time_per_output_token_buckets ==
    <<2, 5, 10, 20, 30, 40, 50, 60, 70, 80, 90, 100, 150, 200, 300, 400, 600,
      800, 1000, 2000>>

inter_token_latency_buckets ==
    <<2, 4, 6, 8, 10, 15, 20, 25, 30, 35, 40, 50, 75, 100, 150, 200, 300, 400,
      500, 750, 1000, 2000>>

e2e_request_latency_buckets ==
    <<100, 200, 400, 800, 1000, 2000, 5000, 10000, 20000, 40000, 60000, 80000,
      100000, 150000, 200000, 250000, 300000, 350000, 500000, 1000000>>

----------------------------------------------------------------------------
(* The primitives *)

RECURSIVE SumSeq(_)
SumSeq(s) == IF s = <<>> THEN 0 ELSE Head(s) + SumSeq(Tail(s))

\* Python's true division; every input pair of the model divides exactly.
TrueDiv(a, b) == a \div b

\* Histogram(buckets=...): one value per bound plus the appended +Inf, and _sum.
NewHistogram(buckets) ==
    [sum |-> 0, buckets |-> [i \in 1..(Len(buckets) + 1) |-> 0]]

\* The index, in _upper_bounds, of the first bound >= amount.  _upper_bounds is
\* the ladder followed by +Inf, so the scan always stops: at Len(buckets) + 1
\* when amount exceeds every finite bound.
FirstBucketNoInf(buckets, amount) ==
    LET m == {i \in 1..Len(buckets) : amount <= buckets[i]}
    IN  IF m = {} THEN 0 ELSE CHOOSE i \in m : \A j \in m : i <= j

FirstBucket(buckets, amount) ==
    LET m == {i \in 1..Len(buckets) : amount <= buckets[i]}
    IN  IF m = {} THEN Len(buckets) + 1 ELSE CHOOSE i \in m : \A j \in m : i <= j

\* value.inc(amount) of one bucket; index 0 (no bound matched) changes nothing.
BucketInc(b, i, amount) ==
    [j \in DOMAIN b |-> IF j = i THEN b[j] + amount ELSE b[j]]

\* Histogram.observe(amount): _sum.inc(amount), then 1 to the first matching bucket.
HistogramObserve(h, buckets, amount) ==
    [sum |-> h.sum + amount,
     buckets |-> BucketInc(h.buckets, FirstBucket(buckets, amount), 1)]

\* The exported sample count: the cumulative bucket total at +Inf.
HistogramCount(h) == SumSeq(h.buckets)

\* The values of the finite buckets.
FiniteTotal(h) == SumSeq(SubSeq(h.buckets, 1, Len(h.buckets) - 1))

OverflowCount(h) == h.buckets[Len(h.buckets)]

\* Counter.inc(amount): ValueError for a negative amount, else value += amount.
CounterIncRaises(amount) == amount < 0

CounterInc(v, amount) == v + amount

----------------------------------------------------------------------------
(* TokenizerMetricsCollector *)

NoCall == [op |-> "none", proc |-> 0, args |-> <<>>, raised |-> "none"]

NothingSent ==
    [prompt |-> 0, generation |-> 0, cached |-> 0, requests |-> 0,
     itl_tokens |-> 0, itl_sum |-> 0, invalid |-> FALSE, logs |-> 0]

\* The statement of observe_one_finished_request (1: line 333, 2: line 334,
\* 3: line 335) whose Counter.inc raises, 0 when none does.
RaisingStatement(prompt_tokens, generation_tokens, cached_tokens) ==
    IF CounterIncRaises(prompt_tokens) THEN 1
    ELSE IF CounterIncRaises(generation_tokens) THEN 2
    ELSE IF CounterIncRaises(cached_tokens) THEN 3
    ELSE 0

\* The guard of line 338.
RecordsTimePerOutputTokenAboveOne(generation_tokens) == generation_tokens > 1

RecordsTimePerOutputToken(generation_tokens) == generation_tokens >= 1

\* The amount line 336 adds to num_requests_total.
RequestIncrementByTokens(generation_tokens) == generation_tokens

RequestIncrement(generation_tokens) == 1

observe_one_finished_request(p, prompt_tokens, generation_tokens, cached_tokens, e2e_latency) ==
    LET failed == RaisingStatement(prompt_tokens, generation_tokens, cached_tokens)
        ran(k) == failed = 0 \/ k < failed
    IN  /\ ncalls < MaxCalls
        /\ ncalls' = ncalls + 1
        /\ prompt_tokens_total' =
              [prompt_tokens_total EXCEPT
                 ![p] = IF ran(1) THEN CounterInc(@, prompt_tokens) ELSE @]
        /\ generation_tokens_total' =
              [generation_tokens_total EXCEPT
                 ![p] = IF ran(2) THEN CounterInc(@, generation_tokens) ELSE @]
        /\ cached_tokens_total' =
              [cached_tokens_total EXCEPT
                 ![p] = IF ran(3) THEN CounterInc(@, cached_tokens) ELSE @]
        /\ num_requests_total' =
              [num_requests_total EXCEPT
                 ![p] = IF ran(4)
                        THEN CounterInc(@, RequestIncrement(generation_tokens))
                        ELSE @]
        /\ histogram_e2e_request_latency' =
              [histogram_e2e_request_latency EXCEPT
                 ![p] = IF ran(5)
                        THEN HistogramObserve(@, e2e_request_latency_buckets,
                                              e2e_latency)
                        ELSE @]
        /\ histogram_time_per_output_token' =
              [histogram_time_per_output_token EXCEPT
                 ![p] = IF ran(6) /\ RecordsTimePerOutputToken(generation_tokens)
                        THEN HistogramObserve(@, time_per_output_token_buckets,
                                              TrueDiv(e2e_latency, generation_tokens))
                        ELSE @]
        /\ last' = [op |-> "observe_one_finished_request", proc |-> p,
                    args |-> <<prompt_tokens, generation_tokens, cached_tokens,
                               e2e_latency>>,
                    raised |-> IF failed = 0 THEN "none" ELSE "ValueError"]
        /\ sent' = [sent EXCEPT
                      ![p] = IF prompt_tokens < 0 \/ generation_tokens < 0
                                \/ cached_tokens < 0
                             THEN [@ EXCEPT !.invalid = TRUE]
                             ELSE [@ EXCEPT !.prompt = @ + prompt_tokens,
                                            !.generation = @ + generation_tokens,
                                            !.cached = @ + cached_tokens,
                                            !.requests = @ + 1]]
        /\ UNCHANGED <<histogram_inter_token_latency_seconds, schedulerVars, task, locked>>

\* Lines 351-357: the batched observation of num_new_tokens samples of
\* adjusted_interval each: _sum takes the raw interval once, the first bucket
\* whose bound is >= adjusted_interval takes num_new_tokens.
BatchObserveByOne(h, internval, adjusted_interval, num_new_tokens) ==
    [sum |-> h.sum + internval,
     buckets |-> BucketInc(h.buckets,
                           FirstBucket(inter_token_latency_buckets, adjusted_interval),
                           1)]

BatchObserve(h, internval, adjusted_interval, num_new_tokens) ==
    [sum |-> h.sum + internval,
     buckets |-> BucketInc(h.buckets,
                           FirstBucket(inter_token_latency_buckets, adjusted_interval),
                           num_new_tokens)]

\* Line 347 raises ZeroDivisionError for num_new_tokens = 0.
DivisionRaises(num_new_tokens) == num_new_tokens = 0

\* The same call with _sum.inc moved above the division of line 347.
observe_inter_token_latency_sum_first(p, internval, num_new_tokens) ==
    /\ ncalls < MaxCalls
    /\ ncalls' = ncalls + 1
    /\ histogram_inter_token_latency_seconds' =
          [histogram_inter_token_latency_seconds EXCEPT
             ![p] = IF DivisionRaises(num_new_tokens)
                    THEN [@ EXCEPT !.sum = @ + internval]
                    ELSE BatchObserve(@, internval,
                                      TrueDiv(internval, num_new_tokens),
                                      num_new_tokens)]
    /\ last' = [op |-> "observe_inter_token_latency", proc |-> p,
                args |-> <<internval, num_new_tokens>>,
                raised |-> IF DivisionRaises(num_new_tokens)
                           THEN "ZeroDivisionError" ELSE "none"]
    /\ sent' = IF DivisionRaises(num_new_tokens) THEN sent
               ELSE [sent EXCEPT ![p].itl_tokens = @ + num_new_tokens,
                                 ![p].itl_sum = @ + internval]
    /\ UNCHANGED <<prompt_tokens_total, generation_tokens_total,
                   cached_tokens_total, num_requests_total,
                   histogram_e2e_request_latency, histogram_time_per_output_token,
                   schedulerVars, task, locked>>

observe_inter_token_latency(p, internval, num_new_tokens) ==
    /\ ncalls < MaxCalls
    /\ ncalls' = ncalls + 1
    /\ IF DivisionRaises(num_new_tokens)
       THEN /\ UNCHANGED <<histogram_inter_token_latency_seconds, sent>>
            /\ last' = [op |-> "observe_inter_token_latency", proc |-> p,
                        args |-> <<internval, num_new_tokens>>,
                        raised |-> "ZeroDivisionError"]
       ELSE /\ histogram_inter_token_latency_seconds' =
                 [histogram_inter_token_latency_seconds EXCEPT
                    ![p] = BatchObserve(@, internval,
                                        TrueDiv(internval, num_new_tokens),
                                        num_new_tokens)]
            /\ last' = [op |-> "observe_inter_token_latency", proc |-> p,
                        args |-> <<internval, num_new_tokens>>,
                        raised |-> "none"]
            /\ sent' = [sent EXCEPT ![p].itl_tokens = @ + num_new_tokens,
                                    ![p].itl_sum = @ + internval]
    /\ UNCHANGED <<prompt_tokens_total, generation_tokens_total,
                   cached_tokens_total, num_requests_total,
                   histogram_e2e_request_latency, histogram_time_per_output_token,
                   schedulerVars, task, locked>>

----------------------------------------------------------------------------
(* observe_inter_token_latency run by concurrent request-handling tasks of   *)
(* process 1.  A value's inc is "with self._lock: self._value += amount":    *)
(* the lock is taken and the value read, then the value is written and the   *)
(* lock released.                                                            *)

NotCalled ==
    [pc |-> "idle", internval |-> 0, num_new_tokens |-> 0, adjusted_interval |-> 0,
     i |-> 0, seen |-> 0]

\* The lock of value v can be taken.
LockIgnored(v) == TRUE

LockFree(v) == v \notin locked

taskFrame ==
    <<prompt_tokens_total, generation_tokens_total, cached_tokens_total,
      num_requests_total, histogram_e2e_request_latency,
      histogram_time_per_output_token, schedulerVars, last, sent, ncalls>>

\* Line 347 (and 351): the division, which raises for num_new_tokens = 0.
task_call(t, internval, num_new_tokens) ==
    /\ task[t].pc = "idle"
    /\ task' = [task EXCEPT
                  ![t] = IF DivisionRaises(num_new_tokens)
                         THEN [@ EXCEPT !.pc = "raised",
                                        !.internval = internval,
                                        !.num_new_tokens = num_new_tokens]
                         ELSE [@ EXCEPT !.pc = "sum",
                                        !.internval = internval,
                                        !.num_new_tokens = num_new_tokens,
                                        !.adjusted_interval =
                                            TrueDiv(internval, num_new_tokens)]]
    /\ UNCHANGED <<histogram_inter_token_latency_seconds, locked, taskFrame>>

\* Line 352, his._sum.inc(internval): lock and read.
task_sum_lock(t) ==
    /\ task[t].pc = "sum"
    /\ LockFree(0)
    /\ locked' = locked \cup {0}
    /\ task' = [task EXCEPT ![t].pc = "sum_write",
                            ![t].seen = histogram_inter_token_latency_seconds[1].sum]
    /\ UNCHANGED <<histogram_inter_token_latency_seconds, taskFrame>>

\* Line 352, his._sum.inc(internval): write and unlock.
task_sum_write(t) ==
    /\ task[t].pc = "sum_write"
    /\ histogram_inter_token_latency_seconds' =
          [histogram_inter_token_latency_seconds EXCEPT
             ![1].sum = task[t].seen + task[t].internval]
    /\ locked' = locked \ {0}
    /\ task' = [task EXCEPT ![t].pc = "scan"]
    /\ UNCHANGED taskFrame

\* Lines 354-355: the scan of his._upper_bounds, which never change.
task_scan(t) ==
    /\ task[t].pc = "scan"
    /\ task' = [task EXCEPT
                  ![t].pc = "bucket",
                  ![t].i = FirstBucket(inter_token_latency_buckets,
                                       task[t].adjusted_interval)]
    /\ UNCHANGED <<histogram_inter_token_latency_seconds, locked, taskFrame>>

\* Line 356, his._buckets[i].inc(num_new_tokens): lock and read.
task_bucket_lock(t) ==
    /\ task[t].pc = "bucket"
    /\ LockFree(task[t].i)
    /\ locked' = locked \cup {task[t].i}
    /\ task' = [task EXCEPT
                  ![t].pc = "bucket_write",
                  ![t].seen =
                      histogram_inter_token_latency_seconds[1].buckets[task[t].i]]
    /\ UNCHANGED <<histogram_inter_token_latency_seconds, taskFrame>>

\* Line 356, his._buckets[i].inc(num_new_tokens): write and unlock; line 357.
task_bucket_write(t) ==
    /\ task[t].pc = "bucket_write"
    /\ histogram_inter_token_latency_seconds' =
          [histogram_inter_token_latency_seconds EXCEPT
             ![1].buckets[task[t].i] = task[t].seen + task[t].num_new_tokens]
    /\ locked' = locked \ {task[t].i}
    /\ task' = [task EXCEPT ![t].pc = "done"]
    /\ UNCHANGED taskFrame

----------------------------------------------------------------------------
(* The multiprocess merge of counters and histogram values (lines 140-162,   *)
(* 217-245: no multiprocess mode, the values of the processes are added),    *)
(* visiting the per-process values in the given order.                       *)

RECURSIVE MergeLastFrom(_, _, _)
MergeLastFrom(acc, order, value) ==
    IF order = <<>> THEN acc
    ELSE MergeLastFrom(value[Head(order)], Tail(order), value)

RECURSIVE MergeFrom(_, _, _)
MergeFrom(acc, order, value) ==
    IF order = <<>> THEN acc
    ELSE MergeFrom(acc + value[Head(order)], Tail(order), value)

\* value: [process -> the process-local value]
CounterMergeLastVisited(order, value) == MergeLastFrom(0, order, value)

CounterMerge(order, value) == MergeFrom(0, order, value)

----------------------------------------------------------------------------
(* SchedulerMetricsCollector *)

Fields ==
    <<"num_running_reqs", "num_used_tokens", "token_usage", "gen_throughput",
      "num_queue_reqs", "cache_hit_rate", "spec_accept_length">>

FieldSet == {Fields[i] : i \in 1..Len(Fields)}

\* SchedulerStats(): every field 0.
DefaultStats == [f \in FieldSet |-> 0]

\* The snapshots the scheduler passes: snapshot k holds 10 * k + i in field i.
Snapshots ==
    {[f \in FieldSet |-> 10 * k + (CHOOSE i \in 1..Len(Fields) : Fields[i] = f)] :
        k \in 1..2}

Idle == [pc |-> 0, stats |-> DefaultStats]

\* The k-th _log_gauge statement of log_stats (lines 119-125) sets gauge
\* Fields[k] from the field of the same name of stats.
StatsFieldShifted(k) == Fields[(k % Len(Fields)) + 1]

StatsField(k) == Fields[k]

\* time.time() advances.
Tick ==
    /\ now < MaxTime
    /\ now' = now + 1
    /\ UNCHANGED <<tokenizerVars, gauges, gauge_ts, last_log_time,
                   histogram_request_queue_latency, sched, task, locked, last, sent,
                   ncalls>>

\* log_stats(stats) is entered by the (single-threaded) scheduler of process p.
log_stats_call(p, stats) ==
    /\ sched[p].pc = 0
    /\ sched' = [sched EXCEPT ![p] = [pc |-> 1, stats |-> stats]]
    /\ ncalls' = ncalls + 1
    /\ UNCHANGED <<tokenizerVars, gauges, gauge_ts, last_log_time,
                   histogram_request_queue_latency, now, task, locked, last, sent>>

\* Lines 114-116 for the k-th gauge: gauge.labels(**self.labels).set(data); a
\* "mostrecent" gauge stores the value with time.time().
log_gauge(p) ==
    LET k == sched[p].pc
    IN  /\ k \in 1..Len(Fields)
        /\ gauges' = [gauges EXCEPT ![p][Fields[k]] = sched[p].stats[StatsField(k)]]
        /\ gauge_ts' = [gauge_ts EXCEPT ![p][Fields[k]] = now]
        /\ sched' = [sched EXCEPT ![p].pc = k + 1]
        /\ UNCHANGED <<tokenizerVars, last_log_time,
                       histogram_request_queue_latency, now, task, locked, last,
                       sent, ncalls>>

\* Line 126, and the return of log_stats.
log_stats_return(p) ==
    /\ sched[p].pc = Len(Fields) + 1
    /\ last_log_time' = [last_log_time EXCEPT ![p] = now]
    /\ sched' = [sched EXCEPT ![p].pc = 0]
    /\ sent' = [sent EXCEPT ![p].logs = @ + 1]
    /\ UNCHANGED <<tokenizerVars, gauges, gauge_ts,
                   histogram_request_queue_latency, now, task, locked, last,
                   ncalls>>

\* Lines 128-130.
observe_request_queue_latency(p, latency) ==
    /\ ncalls < MaxCalls
    /\ sched[p].pc = 0
    /\ histogram_request_queue_latency' =
          [histogram_request_queue_latency EXCEPT
             ![p] = HistogramObserve(@, queue_latency_buckets, latency)]
    /\ last' = [op |-> "observe_request_queue_latency", proc |-> p,
                args |-> <<latency>>, raised |-> "none"]
    /\ ncalls' = ncalls + 1
    /\ UNCHANGED <<tokenizerVars, gauges, gauge_ts, last_log_time, sched, now,
                   task, locked, sent>>

\* The orders in which a merged read may visit the per-process values.
Orders ==
    {o \in [1..Cardinality(Procs) -> Procs] :
        \A i, j \in 1..Cardinality(Procs) : o[i] = o[j] => i = j}

\* The merged read of gauge f (multiprocess_mode="mostrecent", lines 41-88):
\* visiting the processes in the given order, a value replaces the one held
\* when its timestamp is strictly greater; a process that never set the gauge
\* (timestamp 0) has no sample.
RECURSIVE MostRecentFrom(_, _, _)
MostRecentFrom(held, order, f) ==
    IF order = <<>> THEN held
    ELSE LET p == Head(order)
         IN  MostRecentFrom(IF held.ts < gauge_ts[p][f]
                            THEN [value |-> gauges[p][f], ts |-> gauge_ts[p][f]]
                            ELSE held,
                            Tail(order), f)

RECURSIVE LastVisitedFrom(_, _, _)
LastVisitedFrom(held, order, f) ==
    IF order = <<>> THEN held
    ELSE LET p == Head(order)
         IN  LastVisitedFrom(IF gauge_ts[p][f] > 0
                             THEN [value |-> gauges[p][f], ts |-> gauge_ts[p][f]]
                             ELSE held,
                             Tail(order), f)

GaugeMergeReadOrder(order, f) == LastVisitedFrom([value |-> 0, ts |-> 0], order, f).value

GaugeMerge(order, f) == MostRecentFrom([value |-> 0, ts |-> 0], order, f).value

----------------------------------------------------------------------------
(* The state after construction *)

Init ==
    /\ prompt_tokens_total = [p \in Procs |-> 0]
    /\ generation_tokens_total = [p \in Procs |-> 0]
    /\ cached_tokens_total = [p \in Procs |-> 0]
    /\ num_requests_total = [p \in Procs |-> 0]
    /\ histogram_e2e_request_latency =
          [p \in Procs |-> NewHistogram(e2e_request_latency_buckets)]
    /\ histogram_time_per_output_token =
          [p \in Procs |-> NewHistogram(time_per_output_token_buckets)]
    /\ histogram_inter_token_latency_seconds =
          [p \in Procs |-> NewHistogram(inter_token_latency_buckets)]
    /\ gauges = [p \in Procs |-> DefaultStats]
    /\ gauge_ts = [p \in Procs |-> [f \in FieldSet |-> 0]]
    /\ now = 1
    /\ last_log_time = [p \in Procs |-> 1]
    /\ histogram_request_queue_latency =
          [p \in Procs |-> NewHistogram(queue_latency_buckets)]
    /\ sched = [p \in Procs |-> Idle]
    /\ task = [t \in Tasks |-> NotCalled]
    /\ locked = {}
    /\ last = NoCall
    /\ sent = [p \in Procs |-> NothingSent]
    /\ ncalls = 0

(* One worker process handling its requests one call after another. *)
Next ==
    \/ \E a \in TokenAmounts, g \in GenerationAmounts, c \in CachedAmounts,
          l \in Latencies :
          observe_one_finished_request(1, a, g, c, l)
    \/ \E i \in Intervals, n \in NewTokens :
          observe_inter_token_latency(1, i, n)

Spec == Init /\ [][Next]_vars

----------------------------------------------------------------------------
(* Properties of one worker process (Spec) *)

\* A step that is a completed call of operation op.
Called(op) == ncalls' = ncalls + 1 /\ last'.op = op

\* The indices of the finite bounds b of a ladder with num / den <= b (den > 0).
Matching(buckets, num, den) == {i \in 1..Len(buckets) : num <= buckets[i] * den}

\* Bucket i, and no other, grew, by amount.
OnlyBucketGrew(b, b2, i, amount) ==
    /\ b2[i] = b[i] + amount
    /\ \A j \in DOMAIN b : j # i => b2[j] = b[j]

\* C1: a call observe_inter_token_latency(interval, n) with n >= 1 whose
\* interval / n is <= some finite bound adds n to the counter of the first such
\* bound and to no other bucket, and adds the raw interval to the running sum.
C1_BatchedObservation ==
    [][(Called("observe_inter_token_latency") /\ last'.args[2] >= 1) =>
         LET p == last'.proc
             internval == last'.args[1]
             n == last'.args[2]
             h == histogram_inter_token_latency_seconds[p]
             h2 == histogram_inter_token_latency_seconds'[p]
             m == Matching(inter_token_latency_buckets, internval, n)
         IN  m # {} =>
               /\ last'.raised = "none"
               /\ \E i \in m :
                     /\ \A j \in m : i <= j
                     /\ OnlyBucketGrew(h.buckets, h2.buckets, i, n)
               /\ h2.sum = h.sum + internval]_vars

\* 300 ms for 3 tokens after an earlier call: the 100 ms bucket holds 3.
C1_Witness ==
    /\ last.op = "observe_inter_token_latency"
    /\ last.args = <<300, 3>>
    /\ ncalls >= 2
    /\ histogram_inter_token_latency_seconds[1].buckets[14] = 3

\* C2: the sample count of the inter-token-latency histogram is the total of
\* the num_new_tokens passed, its sum the total of the raw intervals, and the
\* +Inf bucket holds the count minus the finite buckets; a call whose
\* interval / n exceeds every finite bound leaves the finite buckets alone and
\* raises the count by n.
C2_CountAndOverflow ==
    /\ [](\A p \in Procs :
            LET h == histogram_inter_token_latency_seconds[p]
            IN  /\ HistogramCount(h) = sent[p].itl_tokens
                /\ h.sum = sent[p].itl_sum
                /\ OverflowCount(h) = sent[p].itl_tokens - FiniteTotal(h))
    /\ [][(Called("observe_inter_token_latency") /\ last'.args[2] >= 1) =>
            LET p == last'.proc
                n == last'.args[2]
                h == histogram_inter_token_latency_seconds[p]
                h2 == histogram_inter_token_latency_seconds'[p]
            IN  Matching(inter_token_latency_buckets, last'.args[1], n) = {} =>
                  /\ \A j \in 1..Len(inter_token_latency_buckets) :
                        h2.buckets[j] = h.buckets[j]
                  /\ HistogramCount(h2) = HistogramCount(h) + n]_vars

\* The scenario of the specification on the source's ladder: (300 ms, 3) then
\* (3000 ms, 1): the 100 ms bucket holds 3, the sum is 3300, the count 4, the
\* overflow 1.
C2_Witness ==
    LET h == histogram_inter_token_latency_seconds[1]
    IN  /\ last.op = "observe_inter_token_latency"
        /\ last.args = <<3000, 1>>
        /\ h.buckets[14] = 3
        /\ h.sum = 3300
        /\ HistogramCount(h) = 4
        /\ FiniteTotal(h) = 3
        /\ OverflowCount(h) = 1

\* C3: observe_one_finished_request with non-negative token amounts does not
\* raise, adds the three amounts to their counters, 1 to the request counter and
\* one sample to the end-to-end histogram; with generation_tokens = 0 the
\* time-per-output-token histogram is unchanged, with generation_tokens >= 1 it
\* takes exactly one sample e2e_latency / generation_tokens.
C3_FinishedRequest ==
    [][(/\ Called("observe_one_finished_request")
        /\ last'.args[1] >= 0 /\ last'.args[2] >= 0 /\ last'.args[3] >= 0) =>
         LET p == last'.proc
             g == last'.args[2]
             l == last'.args[4]
             e == histogram_e2e_request_latency[p]
             e2 == histogram_e2e_request_latency'[p]
             t == histogram_time_per_output_token[p]
             t2 == histogram_time_per_output_token'[p]
             m == Matching(time_per_output_token_buckets, l, g)
         IN  /\ last'.raised = "none"
             /\ prompt_tokens_total'[p] = prompt_tokens_total[p] + last'.args[1]
             /\ generation_tokens_total'[p] = generation_tokens_total[p] + g
             /\ cached_tokens_total'[p] = cached_tokens_total[p] + last'.args[3]
             /\ num_requests_total'[p] = num_requests_total[p] + 1
             /\ e2.sum = e.sum + l
             /\ HistogramCount(e2) = HistogramCount(e) + 1
             /\ g = 0 => t2 = t
             /\ g >= 1 =>
                  /\ t2.sum * g = t.sum * g + l
                  /\ HistogramCount(t2) = HistogramCount(t) + 1
                  /\ \E i \in DOMAIN t.buckets :
                        /\ OnlyBucketGrew(t.buckets, t2.buckets, i, 1)
                        /\ IF m = {} THEN i = Len(time_per_output_token_buckets) + 1
                           ELSE i \in m /\ \A j \in m : i <= j]_vars

\* A request with no generated token was recorded after one with some.
C3_Witness ==
    /\ last.op = "observe_one_finished_request"
    /\ last.args[1] >= 0 /\ last.args[2] = 0 /\ last.args[3] >= 0
    /\ last.raised = "none"
    /\ num_requests_total[1] = 2
    /\ HistogramCount(histogram_e2e_request_latency[1]) = 2
    /\ HistogramCount(histogram_time_per_output_token[1]) = 1

\* C4 (as claimed): observe_one_finished_request with a negative token amount
\* returns without raising and leaves every counter and histogram as it was.
C4_InvalidObservationIsHarmless ==
    [][(/\ Called("observe_one_finished_request")
        /\ (last'.args[1] < 0 \/ last'.args[2] < 0 \/ last'.args[3] < 0)) =>
         /\ last'.raised = "none"
         /\ UNCHANGED tokenizerVars]_vars

\* C7: while every call passed non-negative amounts, each token counter is the
\* total of its argument over the calls and the request counter the number of
\* calls; no counter ever decreases.
C7_CountersAccumulate ==
    /\ [](\A p \in Procs :
            ~sent[p].invalid =>
               /\ prompt_tokens_total[p] = sent[p].prompt
               /\ generation_tokens_total[p] = sent[p].generation
               /\ cached_tokens_total[p] = sent[p].cached
               /\ num_requests_total[p] = sent[p].requests)
    /\ [][\A p \in Procs :
            /\ prompt_tokens_total'[p] >= prompt_tokens_total[p]
            /\ generation_tokens_total'[p] >= generation_tokens_total[p]
            /\ cached_tokens_total'[p] >= cached_tokens_total[p]
            /\ num_requests_total'[p] >= num_requests_total[p]]_vars

C7_Witness ==
    /\ ~sent[1].invalid
    /\ sent[1].requests = 3
    /\ num_requests_total[1] = 3
    /\ prompt_tokens_total[1] = 6
    /\ generation_tokens_total[1] = 4

\* C10: observe_inter_token_latency with num_new_tokens = 0 raises
\* ZeroDivisionError and leaves the histogram's sum and buckets as they were.
C10_ZeroTokensRaisesBeforeUpdate ==
    [][(Called("observe_inter_token_latency") /\ last'.args[2] = 0) =>
         /\ last'.raised = "ZeroDivisionError"
         /\ UNCHANGED tokenizerVars]_vars

C10_Witness ==
    /\ last.op = "observe_inter_token_latency"
    /\ last.args[2] = 0
    /\ last.raised = "ZeroDivisionError"
    /\ histogram_inter_token_latency_seconds[1].sum > 0

----------------------------------------------------------------------------
(* The scheduler collector (SpecSched, SpecGauges) *)

(* One scheduler process: its ticks log a snapshot or admit a request. *)
NextSched ==
    \/ Tick
    \/ \E stats \in Snapshots : ncalls < MaxCalls /\ log_stats_call(1, stats)
    \/ log_gauge(1)
    \/ log_stats_return(1)
    \/ \E l \in QueueLatencies : observe_request_queue_latency(1, l)

SpecSched == Init /\ [][NextSched]_vars

(* The scheduler processes of a deployment logging side by side. *)
NextGauges ==
    \/ Tick
    \/ \E p \in Procs, stats \in Snapshots :
          ncalls < MaxLogs /\ log_stats_call(p, stats)
    \/ \E p \in Procs : log_gauge(p)
    \/ \E p \in Procs : log_stats_return(p)

SpecGauges == Init /\ [][NextGauges]_vars

\* C5: when, for a gauge, one process's last write carries a timestamp later
\* than every other process's, every merged read returns that process's value,
\* in whatever order the merge visits the processes.
C5_MostRecentWins ==
    \A f \in FieldSet : \A b \in Procs :
        (/\ \A a \in Procs \ {b} : gauge_ts[a][f] < gauge_ts[b][f]
         /\ \E a \in Procs \ {b} : gauge_ts[a][f] > 0)
        => \A order \in Orders : GaugeMerge(order, f) = gauges[b][f]

\* Both processes wrote the gauge, process 1 later and another value.
C5_Witness ==
    /\ gauge_ts[2]["num_running_reqs"] > 0
    /\ gauge_ts[1]["num_running_reqs"] > gauge_ts[2]["num_running_reqs"]
    /\ gauges[1]["num_running_reqs"] # gauges[2]["num_running_reqs"]

\* C8: once log_stats(stats) has returned, the seven gauges of the process hold
\* the seven fields of stats; log_stats leaves the queue-latency histogram
\* unchanged; observe_request_queue_latency leaves the gauges and last_log_time
\* unchanged.
C8_LogStats ==
    /\ [](\A p \in Procs : sched[p].pc = 0 => gauges[p] = sched[p].stats)
    /\ [][sched' # sched => UNCHANGED histogram_request_queue_latency]_vars
    /\ [][Called("observe_request_queue_latency") =>
            UNCHANGED <<gauges, gauge_ts, last_log_time>>]_vars

\* Process 1 logged two snapshots and observed a queue latency in between or
\* after; its gauges hold the second snapshot.
C8_Witness ==
    /\ sent[1].logs = 2
    /\ sched[1].pc = 0
    /\ gauges[1] = sched[1].stats
    /\ gauges[1]["spec_accept_length"] = 27
    /\ HistogramCount(histogram_request_queue_latency[1]) = 1
    /\ last_log_time[1] > 1

----------------------------------------------------------------------------
(* Several worker processes, each with its own collector (SpecWorkers) *)

NextWorkers ==
    \/ \E p \in Procs, g \in {-1, 0, 3}, l \in Latencies :
          observe_one_finished_request(p, 2, g, 1, l)
    \/ \E p \in Procs, i \in {300, 3000}, n \in NewTokens :
          observe_inter_token_latency(p, i, n)

SpecWorkers == Init /\ [][NextWorkers]_vars

RECURSIVE Total(_, _)
Total(value, S) ==
    IF S = {} THEN 0
    ELSE LET x == CHOOSE x \in S : TRUE IN value[x] + Total(value, S \ {x})

\* The process-local values of bucket i, and of the sum, of a histogram.
BucketOf(h, i) == [p \in Procs |-> h[p].buckets[i]]
SumOf(h) == [p \in Procs |-> h[p].sum]

\* Every process passed only non-negative amounts so far.
AllValid == \A p \in Procs : ~sent[p].invalid

\* C6: whatever the order in which the merge visits the processes, the merged
\* value of every counter, histogram bucket and histogram sum of the request
\* collector is the total of the process-local values; so it is the total of
\* what the processes observed, in whatever order they observed it.
C6_MergedIsSum ==
    \A order \in Orders :
        /\ \A c \in {prompt_tokens_total, generation_tokens_total,
                     cached_tokens_total, num_requests_total} :
              CounterMerge(order, c) = Total(c, Procs)
        /\ \A h \in {histogram_e2e_request_latency,
                     histogram_time_per_output_token,
                     histogram_inter_token_latency_seconds} :
              /\ CounterMerge(order, SumOf(h)) = Total(SumOf(h), Procs)
              /\ \A i \in DOMAIN h[1].buckets :
                    CounterMerge(order, BucketOf(h, i)) = Total(BucketOf(h, i), Procs)
        /\ CounterMerge(order, SumOf(histogram_inter_token_latency_seconds))
              = Total([p \in Procs |-> sent[p].itl_sum], Procs)
        /\ AllValid =>
              /\ CounterMerge(order, prompt_tokens_total)
                    = Total([p \in Procs |-> sent[p].prompt], Procs)
              /\ CounterMerge(order, generation_tokens_total)
                    = Total([p \in Procs |-> sent[p].generation], Procs)
              /\ CounterMerge(order, num_requests_total)
                    = Total([p \in Procs |-> sent[p].requests], Procs)

\* Both processes recorded a request, process 1 an interval too.
C6_Witness ==
    /\ AllValid
    /\ \A p \in Procs : num_requests_total[p] >= 1
    /\ generation_tokens_total[1] # generation_tokens_total[2]
    /\ histogram_inter_token_latency_seconds[1].sum = 300

----------------------------------------------------------------------------
(* Concurrent tasks of one process (SpecTasks) *)

NextTasks ==
    \/ \E t \in Tasks, i \in {300, 3000}, n \in NewTokens : task_call(t, i, n)
    \/ \E t \in Tasks : task_sum_lock(t)
    \/ \E t \in Tasks : task_sum_write(t)
    \/ \E t \in Tasks : task_scan(t)
    \/ \E t \in Tasks : task_bucket_lock(t)
    \/ \E t \in Tasks : task_bucket_write(t)

SpecTasks == Init /\ [][NextTasks]_vars

AllCompleted == \A t \in Tasks : task[t].pc \in {"done", "raised"}

Completed == {t \in Tasks : task[t].pc = "done"}

\* The tasks whose interval / n has bucket i as its first bound (the last
\* index is the +Inf bound).
MatchedBy(i) ==
    {t \in Completed :
        LET m == Matching(inter_token_latency_buckets, task[t].internval,
                          task[t].num_new_tokens)
        IN  IF m = {} THEN i = Len(inter_token_latency_buckets) + 1
            ELSE i \in m /\ \A j \in m : i <= j}

\* C9: once all the concurrent calls have completed, whatever the interleaving
\* of their steps, the running sum is the total of their intervals and every
\* bucket counter the total of num_new_tokens of the calls that matched it.
C9_NoLostUpdate ==
    AllCompleted =>
      LET h == histogram_inter_token_latency_seconds[1]
      IN  /\ h.sum = Total([t \in Tasks |-> task[t].internval], Completed)
          /\ \A i \in DOMAIN h.buckets :
                h.buckets[i] =
                   Total([t \in Tasks |-> task[t].num_new_tokens], MatchedBy(i))

\* All the calls completed and all of them matched the 100 ms bucket.
C9_Witness ==
    /\ AllCompleted
    /\ Completed = Tasks
    /\ \A t \in Tasks : task[t].i = 14
    /\ histogram_inter_token_latency_seconds[1].buckets[14] = 3 * MaxTasks

====
